---- MODULE Spec2Model ----
(***************************************************************************)
(* GatherRunner (lighthouse-core/gather/gather-runner.js) as a state       *)
(* machine.  One run of GatherRunner.run(passes, options) is followed from *)
(* driver.connect() to the settlement of the promise run() returns.  Every *)
(* await of the runner is a step; the driver, the gatherer hooks and the   *)
(* other collaborators are the environment and answer nondeterministically.*)
(***************************************************************************)
EXTENDS Integers, Sequences, FiniteSets, TLC

VARIABLES
  passes,           \* run() argument: the configured passes
  settings,         \* options.settings
  pc,               \* the statement run() / runPass() is suspended at
  sub,              \* position inside the current function (loop index, call index)
  passIdx,          \* index in `passes` of the pass of the current iteration (0 before the loop)
  isFirstPass,      \* run(): let isFirstPass
  passContext,      \* the PassContext of the current iteration
  gathererResults,  \* run(): const gathererResults
  passResults,      \* runPass(): const gathererResults
  baseArtifacts,    \* run(): const baseArtifacts
  loadData,         \* runPass(): const loadData
  pageLoadError,    \* runPass(): let pageLoadError
  online,           \* driver.online as read by runPass
  calls,            \* the calls the runner made on the driver, the collaborators and the
                    \* gatherer hooks, and the calls that raised, in order
  errorLog,         \* log.error calls
  dispose,          \* state of the promise of the latest disposeDriver() call
  runState,         \* the promise run() returned
  deviations        \* answers of the environment so far that were not the nominal one

vars == <<passes, settings, pc, sub, passIdx, isFirstPass, passContext,
          gathererResults, passResults, baseArtifacts, loadData, pageLoadError,
          online, calls, errorLog, dispose, runState, deviations>>

(***************************************************************************)
(* Bounds                                                                  *)
(***************************************************************************)
\* At most this many answers of the environment in a run are other than the
\* nominal one.  Nominal: a hook resolves to a defined value and pushes no
\* warning, the navigation does
\* not redirect, the main document loads, the driver is online, disconnect()
\* succeeds.  A driver or collaborator call that raises ends the run and is not
\* counted.
MaxDeviations == 3

(***************************************************************************)
(* Values.  A JavaScript value is a record [type, tag]: type tells where    *)
(* the value was made, tag is a tuple of strings that tells such values    *)
(* apart.                                                                  *)
(***************************************************************************)
Undefined == [type |-> "undefined", tag |-> <<>>]

\* What gatherer `name` returns from hook `phase` in pass `passName`.
HookValue(passName, phase, name) == [type |-> "value", tag |-> <<passName, phase, name>>]

\* What gatherer `name` throws from hook `phase` in pass `passName`.
HookError(passName, phase, name) == [type |-> "HookError", tag |-> <<passName, phase, name>>]

\* What a driver or collaborator call throws.
DriverError(method) == [type |-> "DriverError", tag |-> <<method>>]

\* new LHError(LHError.errors[code], properties)
LHError(code, properties) == [type |-> "LHError", tag |-> <<code>> \o properties]

\* LHError#friendlyMessage: the message of the error's code, with its properties.
friendlyMessage(err) == <<"friendlyMessage">> \o err.tag

\* LHError#message
message(err) == <<"message">> \o err.tag

\* new Error(`${gathererName} failed to provide an artifact.`)
NoArtifactError(gathererName) ==
  [type |-> "NoArtifactError", tag |-> <<gathererName, " failed to provide an artifact.">>]

(***************************************************************************)
(* Promises: a slot of a gatherer's results array.                         *)
(***************************************************************************)
Pending == [state |-> "pending", val |-> Undefined]
Fulfilled(v) == [state |-> "fulfilled", val |-> v]
Rejected(e) == [state |-> "rejected", val |-> e]

(***************************************************************************)
(* URLs and network records                                                *)
(***************************************************************************)
Url(base, hash) == [base |-> base, hash |-> hash]

requestedUrl == Url("http://a.test/", "")
redirectedUrl == Url("http://a.test/b", "")
blankPage == Url("about:blank", "")

\* URL.equalWithExcludedFragments(url1, url2)
equalWithExcludedFragments(url1, url2) == url1.base = url2.base

NetworkRecord(url, failed, reason, statusCode) ==
  [url |-> url, failed |-> failed, localizedFailDescription |-> reason,
   statusCode |-> statusCode]

\* NetworkRequest#hasErrorStatusCode
hasErrorStatusCode(record) == record.statusCode >= 400

\* A string is a sequence of pieces; String#startsWith on pieces.
startsWith(str, prefix) ==
  /\ Len(str) >= Len(prefix)
  /\ SubSeq(str, 1, Len(prefix)) = prefix

NAME_NOT_RESOLVED == <<"net::ERR_", "NAME_NOT_RESOLVED">>
NAME_RESOLUTION_FAILED == <<"net::ERR_", "NAME_RESOLUTION_FAILED">>
DNS_PREFIX == <<"net::ERR_", "DNS_">>

\* Array#find: the first element satisfying Test, or Undefined.
RECURSIVE FindFrom(_, _, _)
FindFrom(records, url, i) ==
  IF i > Len(records) THEN 0
  ELSE IF equalWithExcludedFragments(records[i].url, url) THEN i
  ELSE FindFrom(records, url, i + 1)

\* A plausible slip: the status code is looked at before the failed flag.
getPageLoadErrorByStatus(url, networkRecords) ==
  LET i == FindFrom(networkRecords, url, 1) IN
  IF i = 0 THEN LHError("NO_DOCUMENT_REQUEST", <<>>)
  ELSE LET mainRecord == networkRecords[i]
           netErr == mainRecord.localizedFailDescription IN
    IF hasErrorStatusCode(mainRecord)
    THEN LHError("ERRORED_DOCUMENT_REQUEST", <<ToString(mainRecord.statusCode)>>)
    ELSE IF mainRecord.failed THEN
      IF \/ netErr = NAME_NOT_RESOLVED
         \/ netErr = NAME_RESOLUTION_FAILED
         \/ startsWith(netErr, DNS_PREFIX)
      THEN LHError("DNS_FAILURE", <<>>)
      ELSE LHError("FAILED_DOCUMENT_REQUEST", netErr)
    ELSE Undefined

\* GatherRunner.getPageLoadError(url, networkRecords)
getPageLoadError(url, networkRecords) ==
  LET i == FindFrom(networkRecords, url, 1) IN
  IF i = 0 THEN LHError("NO_DOCUMENT_REQUEST", <<>>)
  ELSE LET mainRecord == networkRecords[i]
           netErr == mainRecord.localizedFailDescription IN
    IF mainRecord.failed THEN
      IF \/ netErr = NAME_NOT_RESOLVED
         \/ netErr = NAME_RESOLUTION_FAILED
         \/ startsWith(netErr, DNS_PREFIX)
      THEN LHError("DNS_FAILURE", <<>>)
      ELSE LHError("FAILED_DOCUMENT_REQUEST", netErr)
    ELSE IF hasErrorStatusCode(mainRecord)
      THEN LHError("ERRORED_DOCUMENT_REQUEST", <<ToString(mainRecord.statusCode)>>)
      ELSE Undefined

(***************************************************************************)
(* Objects with string keys, in insertion order: a sequence of entries.    *)
(***************************************************************************)
Entry(key, value) == [key |-> key, value |-> value]

Keys(obj) == {obj[i].key : i \in 1..Len(obj)}

\* obj[key], <<>> standing for a key that is not there (`obj[key] || []`)
Get(obj, key) ==
  IF key \in Keys(obj)
  THEN (CHOOSE e \in {obj[i] : i \in 1..Len(obj)} : e.key = key).value
  ELSE <<>>

\* obj[key] = value: an existing key keeps its place, a new one goes last
Set(obj, key, value) ==
  IF key \in Keys(obj)
  THEN [i \in 1..Len(obj) |-> IF obj[i].key = key THEN Entry(key, value) ELSE obj[i]]
  ELSE Append(obj, Entry(key, value))

\* A plausible slip in the merge: the arrays of a key are concatenated.
RECURSIVE ObjectAssignAppending(_, _)
ObjectAssignAppending(target, source) ==
  IF source = <<>> THEN target
  ELSE ObjectAssignAppending(
         Set(target, Head(source).key, Get(target, Head(source).key) \o Head(source).value),
         Tail(source))

\* Object.assign(target, source)
RECURSIVE ObjectAssign(_, _)
ObjectAssign(target, source) ==
  IF source = <<>> THEN target
  ELSE ObjectAssign(Set(target, Head(source).key, Head(source).value), Tail(source))

\* A plausible slip: the new promise is put in front.
Unshift(results, name, promise) == Set(results, name, <<promise>> \o Get(results, name))

\* gathererResult.push(artifactPromise); gathererResults[name] = gathererResult
Push(results, name, promise) == Set(results, name, Append(Get(results, name), promise))

\* A plausible slip: the list is returned as it was appended to.
WithDuplicates(array) == array

\* Array.from(new Set(array)): the first occurrence of each element, in order
RECURSIVE Unique(_)
Unique(array) ==
  IF array = <<>> THEN <<>>
  ELSE LET init == Unique(SubSeq(array, 1, Len(array) - 1))
           last == array[Len(array)] IN
    IF \E i \in 1..Len(init) : init[i] = last THEN init ELSE Append(init, last)

(***************************************************************************)
(* collectArtifacts                                                        *)
(***************************************************************************)
Settled(promise) == promise.state # "pending"

AllSettled(results) ==
  \A i \in 1..Len(results) : \A j \in 1..Len(results[i].value) :
    Settled(results[i].value[j])

RejectedAt(promises) == {i \in 1..Len(promises) : promises[i].state = "rejected"}

IsDefined(v) == v # Undefined

\* A plausible slip: the first defined phase result is taken.
FirstDefined(promises) ==
  LET definedResults == SelectSeq([i \in 1..Len(promises) |-> promises[i].val], IsDefined)
  IN IF definedResults = <<>> THEN Undefined
     ELSE definedResults[1]

\* The try block of collectArtifacts (lines 391-396) for one gatherer whose
\* promises all fulfil: the last defined phase result, or undefined.
LastDefined(promises) ==
  LET definedResults == SelectSeq([i \in 1..Len(promises) |-> promises[i].val], IsDefined)
  IN IF definedResults = <<>> THEN Undefined
     ELSE definedResults[Len(definedResults)]

\* A plausible slip: the reason of the last rejected promise instead of the first.
PromiseAllReasonLast(promises) ==
  promises[CHOOSE i \in RejectedAt(promises) : \A j \in RejectedAt(promises) : j <= i].val

\* await Promise.all(promises) on settled promises, one of them rejected:
\* it raises the reason of the first rejected promise of the array.
PromiseAllReason(promises) ==
  promises[CHOOSE i \in RejectedAt(promises) : \A j \in RejectedAt(promises) : i <= j].val

\* A plausible slip: rejections are skipped and the surviving values are used.
ArtifactIgnoringRejections(promises) ==
  LastDefined(SelectSeq(promises, LAMBDA p : p.state = "fulfilled"))

\* Lines 390-400: the artifact of one gatherer from its phase results.
Artifact(promises) ==
  IF RejectedAt(promises) = {} THEN LastDefined(promises)
  ELSE PromiseAllReason(promises)

\* A plausible slip: a missing artifact is let through.
UnprovidedAllowed(results) == {}

\* The entries whose artifact comes out undefined (line 402).
Unprovided(results) == {i \in 1..Len(results) : Artifact(results[i].value) = Undefined}

\* A plausible slip: no try/catch around the await of a gatherer's promises.
collectArtifactsUncaught(results, base) ==
  LET rejecting == {i \in 1..Len(results) : RejectedAt(results[i].value) # {}} IN
  IF rejecting # {}
  THEN Rejected(PromiseAllReason(results[CHOOSE i \in rejecting : \A j \in rejecting : i <= j].value))
  ELSE Fulfilled(
         [base |-> [base EXCEPT !.LighthouseRunWarnings = Unique(@), !.Timing = "timeEntries"],
          gathererArtifacts |->
            [i \in 1..Len(results) |-> Entry(results[i].key, Artifact(results[i].value))]])

\* GatherRunner.collectArtifacts(gathererResults, baseArtifacts): the settled
\* state of the promise it returns.
collectArtifacts(results, base) ==
  IF Unprovided(results) # {}
  THEN Rejected(NoArtifactError(
         results[CHOOSE i \in Unprovided(results) : \A j \in Unprovided(results) : i <= j].key))
  ELSE Fulfilled(
         [base |-> [base EXCEPT !.LighthouseRunWarnings = Unique(@), !.Timing = "timeEntries"],
          gathererArtifacts |->
            [i \in 1..Len(results) |-> Entry(results[i].key, Artifact(results[i].value))]])

(***************************************************************************)
(* Configurations                                                          *)
(***************************************************************************)
PassConfig(passName, gatherers, recordTrace, useThrottling) ==
  [passName |-> passName, gatherers |-> gatherers,
   recordTrace |-> recordTrace, useThrottling |-> useThrottling]

defaultPass == PassConfig("defaultPass", <<"A", "B">>, TRUE, TRUE)
offlinePass == PassConfig("offlinePass", <<"C">>, FALSE, FALSE)
redirectPass == PassConfig("redirectPass", <<"A">>, TRUE, FALSE)
slowPass == PassConfig("slowPass", <<"B">>, FALSE, TRUE)

\* The pass lists a run is given.
Configs ==
  { <<defaultPass>>, <<slowPass>>,
    <<defaultPass, offlinePass>>, <<offlinePass, redirectPass>>,
    <<redirectPass, defaultPass>> }

Settings == [disableStorageReset : BOOLEAN]

\* What driver.gotoURL(passContext.url) may resolve to.
FinalUrls == {requestedUrl, redirectedUrl}

\* The network records of a navigation to `url` whose main document loaded.
LoadedRecords(url) ==
  <<NetworkRecord(blankPage, FALSE, <<>>, 200), NetworkRecord(url, FALSE, <<>>, 200)>>

\* What NetworkRecorder.recordsFromLogs may return for a navigation to `url`.
RecordLists(url) ==
  { <<>>,
    LoadedRecords(url),
    <<NetworkRecord(url, TRUE, <<"net::ERR_", "CONNECTION_REFUSED">>, 0)>> }

\* The messages of the errors driver.disconnect() may reject with.
DisconnectMessages ==
  { <<"Unable to ", "close/", "tab. ", "status: ", "500">>,
    <<"close/", "status: ", "404">>,
    <<"close/", "status: ", "403">> }

\* /close\/.*status: (500|404)$/.test(msg)
AlreadyClosed(msg) ==
  /\ Len(msg) >= 3
  /\ msg[Len(msg)] \in {"500", "404"}
  /\ msg[Len(msg) - 1] = "status: "
  /\ \E i \in 1..(Len(msg) - 2) : msg[i] = "close/"

(***************************************************************************)
(* Initial state: run(passes, options) has been called and has not yet     *)
(* reached its first await.                                                *)
(***************************************************************************)
NoLoadData == [networkRecords |-> <<>>, devtoolsLog |-> <<>>, trace |-> <<>>]

\* GatherRunner.getBaseArtifacts: the skeleton, before and after it is built.
BaseArtifacts(hostUserAgent) ==
  [LighthouseRunWarnings |-> <<>>,
   HostUserAgent |-> hostUserAgent,
   NetworkUserAgent |-> "",
   BenchmarkIndex |-> "0",
   WebAppManifest |-> "null",
   Stacks |-> "[]",
   traces |-> <<>>,
   devtoolsLogs |-> <<>>,
   URL |-> [requestedUrl |-> requestedUrl, finalUrl |-> Url("", "")],
   Timing |-> "[]"]

NoDispose == [state |-> "none", val |-> Undefined]

Init ==
  /\ passes \in Configs
  /\ settings \in Settings
  /\ pc = "connect"
  /\ sub = 1
  /\ passIdx = 0
  /\ isFirstPass = TRUE
  /\ passContext = [url |-> requestedUrl]
  /\ gathererResults = <<>>
  /\ passResults = <<>>
  /\ baseArtifacts = BaseArtifacts("")
  /\ loadData = NoLoadData
  /\ pageLoadError = Undefined
  /\ online = TRUE
  /\ calls = <<>>
  /\ errorLog = <<>>
  /\ dispose = NoDispose
  /\ runState = Pending
  /\ deviations = 0

passConfig == passes[passIdx]
gatherers == passConfig.gatherers

(***************************************************************************)
(* run(): lines 470-539                                                    *)
(***************************************************************************)
cfg == <<passes, settings>>
outcome == <<dispose, runState, errorLog>>
artifacts == <<gathererResults, passResults, baseArtifacts>>
passState == <<passIdx, isFirstPass, passContext, loadData, pageLoadError, online>>

\* The environment may give `n` more answers that are not the nominal one.
Within(n) == deviations + n <= MaxDeviations

\* A plausible slip: the error handler swallows the error and returns nothing.
runCatchSwallowing(err, made) ==
  /\ calls' = Append(made, <<"disconnect">>)
  /\ dispose' = Pending
  /\ runState' = Fulfilled(Undefined)
  /\ pc' = "done"
  /\ UNCHANGED <<cfg, sub, passState, artifacts, deviations, errorLog>>

\* Lines 534-538: catch (err) { GatherRunner.disposeDriver(driver); throw err; }
\* `made` is the call log including the call that raised.
runCatch(err, made) ==
  /\ calls' = Append(made, <<"disconnect">>)
  /\ dispose' = Pending
  /\ runState' = Rejected(err)
  /\ pc' = "done"
  /\ UNCHANGED <<cfg, sub, passState, artifacts, deviations, errorLog>>

\* An awaited call on the driver or a collaborator raises inside run()'s try block.
Raises(call) == runCatch(DriverError(call[1]), calls \o <<call, <<"raised", call[1]>> >>)

\* Line 477
connect ==
  /\ pc = "connect"
  /\ \/ /\ calls' = Append(calls, <<"connect">>)
        /\ pc' = "getBaseArtifacts"
        /\ UNCHANGED <<cfg, sub, passState, artifacts, deviations, outcome>>
     \/ Raises(<<"connect">>)

\* Line 478, lines 421-445
getBaseArtifacts ==
  /\ pc = "getBaseArtifacts"
  /\ \/ /\ calls' = Append(calls, <<"getBrowserVersion">>)
        /\ baseArtifacts' = BaseArtifacts("hostUserAgent")
        /\ pc' = "loadBlank"
        /\ UNCHANGED <<cfg, sub, passState, gathererResults, passResults, deviations, outcome>>
     \/ Raises(<<"getBrowserVersion">>)

\* Lines 75-80, called from line 481 (before the loop) and line 500 (passes after the first)
loadBlank ==
  /\ pc = "loadBlank"
  /\ \/ /\ calls' = Append(calls, <<"gotoURL", "about:blank">>)
        /\ pc' = IF passIdx = 0 THEN "getBenchmarkIndex" ELSE "setupPassNetwork"
        /\ sub' = 1
        /\ UNCHANGED <<cfg, passState, artifacts, deviations, outcome>>
     \/ Raises(<<"gotoURL", "about:blank">>)

\* Line 482
getBenchmarkIndex ==
  /\ pc = "getBenchmarkIndex"
  /\ \/ /\ calls' = Append(calls, <<"getBenchmarkIndex">>)
        /\ baseArtifacts' = [baseArtifacts EXCEPT !.BenchmarkIndex = "benchmarkIndex"]
        /\ pc' = "setupDriver"
        /\ sub' = 1
        /\ UNCHANGED <<cfg, passState, gathererResults, passResults, deviations, outcome>>
     \/ Raises(<<"getBenchmarkIndex">>)

\* The driver calls of setupDriver, lines 119-126, in order.
SetupDriverCalls ==
  << <<"assertNoSameOriginServiceWorkerClients">>, <<"beginEmulation">>,
     <<"enableRuntimeEvents">>, <<"enableAsyncStacks">>, <<"cacheNatives">>,
     <<"registerPerformanceObserver">>, <<"dismissJavaScriptDialogs">>,
     <<"clearDataForOrigin">> >>

\* Lines 118 and 530: const resetStorage = !options.settings.disableStorageReset
resetStorage == ~settings.disableStorageReset

\* How many of SetupDriverCalls setupDriver makes (line 126: the last one if resetStorage).
SetupDriverSteps == IF resetStorage THEN Len(SetupDriverCalls) ELSE Len(SetupDriverCalls) - 1

\* Lines 115-128: one awaited call of setupDriver
setupDriver ==
  /\ pc = "setupDriver"
  /\ \/ /\ calls' = Append(calls, SetupDriverCalls[sub])
        /\ IF sub < SetupDriverSteps
           THEN pc' = pc /\ sub' = sub + 1
           ELSE pc' = "nextPass" /\ sub' = 1
        /\ UNCHANGED <<cfg, passState, artifacts, deviations, outcome>>
     \/ Raises(SetupDriverCalls[sub])

\* A plausible slip: a later pass starts where the previous one ended.
firstStepOfPassWithoutBlank == "setupPassNetwork"

\* Lines 498-503: a pass after the first begins by loading the blank page
firstStepOfPass == IF isFirstPass THEN "setupPassNetwork" ELSE "loadBlank"

\* Lines 486-501: the head of an iteration of the for loop, or the loop's exit (line 530)
nextPass ==
  /\ pc = "nextPass"
  /\ IF passIdx < Len(passes)
     THEN /\ passIdx' = passIdx + 1
          /\ passContext' = [url |-> requestedUrl]
          /\ passResults' = <<>>
          /\ loadData' = NoLoadData
          /\ pageLoadError' = Undefined
          /\ pc' = firstStepOfPass
     ELSE /\ pc' = IF resetStorage THEN "clearDataForOrigin" ELSE "disposeDriver"
          /\ UNCHANGED <<passIdx, passContext, passResults, loadData, pageLoadError>>
  /\ sub' = 1
  /\ UNCHANGED <<cfg, isFirstPass, online, gathererResults, baseArtifacts, calls, deviations, outcome>>

(***************************************************************************)
(* runPass(): lines 556-598                                                *)
(***************************************************************************)
\* setThrottling(settings, passConfig) as the driver sees it
SetThrottling(useThrottling) ==
  <<"setThrottling", IF useThrottling THEN "throttled" ELSE "unthrottled">>

\* The driver calls of setupPassNetwork, lines 196-205, in order.
SetupPassNetworkCalls ==
  << SetThrottling(passConfig.useThrottling), <<"blockUrlPatterns">>,
     <<"setExtraHTTPHeaders">> >>

\* A plausible slip: throttling is left out of the test.
isPerfPassThrottledOrNot == ~settings.disableStorageReset /\ passConfig.recordTrace

\* Lines 546-549
isPerfPass ==
  ~settings.disableStorageReset /\ passConfig.recordTrace /\ passConfig.useThrottling

\* Lines 194-206 and 562-564: one awaited call of setupPassNetwork
setupPassNetwork ==
  /\ pc = "setupPassNetwork"
  /\ \/ /\ calls' = Append(calls, SetupPassNetworkCalls[sub])
        /\ IF sub < Len(SetupPassNetworkCalls)
           THEN pc' = pc /\ sub' = sub + 1
           ELSE /\ pc' = IF isPerfPass THEN "cleanBrowserCaches" ELSE "beforePass"
                /\ sub' = 1
        /\ UNCHANGED <<cfg, passState, artifacts, deviations, outcome>>
     \/ Raises(SetupPassNetworkCalls[sub])

\* Line 564
cleanBrowserCaches ==
  /\ pc = "cleanBrowserCaches"
  /\ \/ /\ calls' = Append(calls, <<"cleanBrowserCaches">>)
        /\ pc' = "beforePass"
        /\ sub' = 1
        /\ UNCHANGED <<cfg, passState, artifacts, deviations, outcome>>
     \/ Raises(<<"cleanBrowserCaches">>)

\* Promise.resolve().then(_ => gatherer[phase](passContext)): the hook is invoked
\* and its promise is pending; the tag names the invocation.
HookPromise(phase, name) ==
  [state |-> "pending", val |-> [type |-> "hook", tag |-> <<passConfig.passName, phase, name>>]]

\* The invocation of a hook, as the call log has it.
HookCall(phase, name) == <<"hook", passConfig.passName, phase, name>>

\* A plausible slip: the loop goes on without waiting for the hook.
AwaitedAtOnce(promise) == TRUE

\* `await artifactPromise...` (lines 278, 311, 349, 369): the runner resumes when
\* the promise has settled.
Awaited(promise) == Settled(promise)

\* A plausible slip: the rejection is not caught.
Uncaught(promise) == promise

\* artifactPromise.catch(() => {}): a rejection becomes a fulfilment with undefined.
Caught(promise) ==
  IF promise.state = "rejected" THEN Fulfilled(Undefined) ELSE promise

\* The promise the current iteration of a gatherer loop awaits.
artifactPromise ==
  LET gathererResult == Get(passResults, gatherers[sub])
  IN gathererResult[Len(gathererResult)]

\* The loop an await belongs to.
LoopOf(label) ==
  CASE label = "beforePass:await" -> "beforePass"
    [] label = "pass:await" -> "pass"
    [] label = "afterPass:await" -> "afterPass"

\* Lines 278, 311, 349: `await artifactPromise.catch(() => {})`, after which the
\* loop goes to its next gatherer.
awaitArtifactPromise ==
  /\ pc \in {"beforePass:await", "pass:await", "afterPass:await"}
  /\ Awaited(artifactPromise)
  /\ IF Caught(artifactPromise).state = "rejected"
     THEN runCatch(artifactPromise.val, calls)
     ELSE /\ pc' = LoopOf(pc)
          /\ sub' = sub + 1
          /\ UNCHANGED <<cfg, passState, artifacts, calls, deviations, outcome>>

\* What a hook invocation may settle with: a defined value, or (within the
\* bound) undefined or a rejection.
HookOutcomes(hook) ==
  {Fulfilled(HookValue(hook[1], hook[2], hook[3]))} \cup
  (IF Within(1)
   THEN {Fulfilled(Undefined), Rejected(HookError(hook[1], hook[2], hook[3]))}
   ELSE {})

\* Lines 494-495: the warning gatherer `name` pushes to passContext.LighthouseRunWarnings,
\* which is the array of baseArtifacts; a gatherer has one message.
HookWarning(name) == <<"warning", name>>

\* A gatherer hook that was invoked returns, throws, or the promise it returned
\* settles; while it ran it may have pushed a warning.
hookSettles ==
  \E i \in 1..Len(passResults) : \E j \in 1..Len(passResults[i].value) :
    LET promise == passResults[i].value[j] IN
    /\ promise.state = "pending"
    /\ \E settled \in HookOutcomes(promise.val.tag), warns \in BOOLEAN :
         /\ passResults' = [passResults EXCEPT ![i].value[j] = settled]
         /\ baseArtifacts' =
              IF warns
              THEN [baseArtifacts EXCEPT
                      !.LighthouseRunWarnings = Append(@, HookWarning(promise.val.tag[3]))]
              ELSE baseArtifacts
         /\ deviations' = deviations + (IF settled.val.type = "value" THEN 0 ELSE 1)
                                      + (IF warns THEN 1 ELSE 0)
         /\ deviations' <= MaxDeviations
    /\ UNCHANGED <<cfg, pc, sub, passState, gathererResults, calls, outcome>>

\* Lines 263-282: beforePass(passContext, gathererResults), up to the await
beforePass ==
  /\ pc = "beforePass"
  /\ IF sub <= Len(gatherers)
     THEN /\ passResults' =
               Set(passResults, gatherers[sub], <<HookPromise("beforePass", gatherers[sub])>>)
          /\ calls' = Append(calls, HookCall("beforePass", gatherers[sub]))
          /\ pc' = "beforePass:await"
          /\ UNCHANGED sub
     ELSE /\ pc' = "beginRecording"
          /\ sub' = 1
          /\ UNCHANGED <<passResults, calls>>
  /\ UNCHANGED <<cfg, passState, gathererResults, baseArtifacts, deviations, outcome>>

\* Lines 213-222: one awaited call of beginRecording
beginRecording ==
  /\ pc = "beginRecording"
  /\ LET call == IF sub = 1 THEN <<"beginDevtoolsLog">> ELSE <<"beginTrace">> IN
     \/ /\ calls' = Append(calls, call)
        /\ IF sub = 1 /\ passConfig.recordTrace
           THEN pc' = pc /\ sub' = 2
           ELSE pc' = "loadPage" /\ sub' = 1
        /\ UNCHANGED <<cfg, passState, artifacts, deviations, outcome>>
     \/ Raises(call)

\* Lines 91-108
loadPage ==
  /\ pc = "loadPage"
  /\ \/ /\ calls' = Append(calls, <<"gotoURL", passContext.url.base>>)
        /\ \E finalUrl \in FinalUrls :
             /\ passContext' = [passContext EXCEPT !.url = finalUrl]
             /\ deviations' = IF finalUrl = passContext.url THEN deviations ELSE deviations + 1
        /\ Within(deviations' - deviations)
        /\ pc' = "pass"
        /\ sub' = 1
        /\ UNCHANGED <<cfg, passIdx, isFirstPass, loadData, pageLoadError, online,
                       artifacts, outcome>>
     \/ Raises(<<"gotoURL", passContext.url.base>>)

\* Lines 290-315: pass(passContext, gathererResults), up to the await
pass ==
  /\ pc = "pass"
  /\ IF sub <= Len(gatherers)
     THEN /\ passResults' = Push(passResults, gatherers[sub], HookPromise("pass", gatherers[sub]))
          /\ calls' = Append(calls, HookCall("pass", gatherers[sub]))
          /\ pc' = "pass:await"
          /\ UNCHANGED sub
     ELSE /\ pc' = "endRecording"
          /\ sub' = IF passConfig.recordTrace THEN 1 ELSE 2
          /\ UNCHANGED <<passResults, calls>>
  /\ UNCHANGED <<cfg, passState, gathererResults, baseArtifacts, deviations, outcome>>

\* Lines 229-254: endRecording, its awaited endTrace (sub = 1) and then the rest
endRecording ==
  /\ pc = "endRecording"
  /\ \/ /\ sub = 1
        /\ calls' = Append(calls, <<"endTrace">>)
        /\ loadData' = [loadData EXCEPT !.trace = <<"trace", passConfig.passName>>]
        /\ sub' = 2
        /\ UNCHANGED <<cfg, pc, passIdx, isFirstPass, passContext, pageLoadError, online,
                       artifacts, deviations, outcome>>
     \/ /\ sub = 1
        /\ Raises(<<"endTrace">>)
     \/ /\ sub = 2
        /\ calls' = calls \o << <<"endDevtoolsLog">>, <<"recordsFromLogs">> >>
        /\ \E networkRecords \in RecordLists(passContext.url) :
             /\ loadData' = [loadData EXCEPT !.networkRecords = networkRecords,
                                             !.devtoolsLog = <<"devtoolsLog", passConfig.passName>>]
             /\ deviations' = IF networkRecords = LoadedRecords(passContext.url)
                              THEN deviations ELSE deviations + 1
        /\ Within(deviations' - deviations)
        /\ pc' = "disableThrottling"
        /\ sub' = 1
        /\ UNCHANGED <<cfg, passIdx, isFirstPass, passContext, pageLoadError, online,
                       artifacts, outcome>>
     \/ /\ sub = 2
        /\ Raises(<<"endDevtoolsLog">>)

\* A plausible slip: the driver's online flag is not consulted.
pageLoadErrorIgnoringOnline(driverOnline) ==
  getPageLoadError(passContext.url, loadData.networkRecords)

\* Lines 582-583: the page-load error of the pass, given driver.online
pageLoadErrorOf(driverOnline) ==
  IF ~driverOnline THEN Undefined
  ELSE getPageLoadError(passContext.url, loadData.networkRecords)

\* A plausible slip: the trace is saved whether there is one or not.
SaveLoadDataAndTrace(base) ==
  [base EXCEPT
     !.devtoolsLogs = Set(@, passConfig.passName, loadData.devtoolsLog),
     !.traces = Set(@, passConfig.passName, loadData.trace)]

\* Lines 577-579: the pass's devtoolsLog and trace are saved under the pass name
SaveLoadData(base) ==
  [base EXCEPT
     !.devtoolsLogs = Set(@, passConfig.passName, loadData.devtoolsLog),
     !.traces = IF loadData.trace # <<>> THEN Set(@, passConfig.passName, loadData.trace) ELSE @]

\* A plausible slip: the pass's own throttling is set again.
throttlingOfPass == SetThrottling(passConfig.useThrottling)

\* Line 574: driver.setThrottling(passContext.settings, {useThrottling: false})
throttlingOff == SetThrottling(FALSE)

\* Lines 574-595: throttling is switched off, the load data is saved and the
\* page load is classified; on an error it is logged and its warning pushed
disableThrottling ==
  /\ pc = "disableThrottling"
  /\ \/ /\ calls' = Append(calls, throttlingOff)
        /\ \E driverOnline \in BOOLEAN :
             /\ online' = driverOnline
             /\ pageLoadError' = pageLoadErrorOf(driverOnline)
             /\ deviations' = IF driverOnline THEN deviations ELSE deviations + 1
        /\ Within(deviations' - deviations)
        /\ IF pageLoadError' = Undefined
           THEN /\ baseArtifacts' = SaveLoadData(baseArtifacts)
                /\ pc' = "afterPass"
                /\ UNCHANGED errorLog
           ELSE /\ errorLog' = Append(errorLog, <<"GatherRunner">> \o message(pageLoadError'))
                /\ baseArtifacts' =
                     [SaveLoadData(baseArtifacts) EXCEPT
                        !.LighthouseRunWarnings = Append(@, friendlyMessage(pageLoadError'))]
                /\ pc' = "fillWithPageLoadErrors"
        /\ sub' = 1
        /\ UNCHANGED <<cfg, passIdx, isFirstPass, passContext, loadData, gathererResults,
                       passResults, dispose, runState>>
     \/ Raises(throttlingOff)

\* A plausible slip: the final URL is copied after every pass.
finalUrlOfEveryPass(base) == [base EXCEPT !.URL.finalUrl = passContext.url]

\* Lines 507-509: the redirected URL is copied to the artifact in the first pass only
finalUrlOfFirstPass(base) ==
  IF isFirstPass THEN [base EXCEPT !.URL.finalUrl = passContext.url] ELSE base

\* A plausible slip: the first pass is finalized only if its page loaded.
afterRunPassIfLoaded ==
  IF isFirstPass /\ pageLoadError = Undefined THEN "getWebAppManifest" ELSE "nextPass"

\* Lines 507-528: after runPass, the first pass goes on to the manifest, the
\* stacks and the network user agent; any other pass to the next iteration
afterRunPass == IF isFirstPass THEN "getWebAppManifest" ELSE "nextPass"

\* Lines 589/597 and 504-509: runPass returns its results and run() merges them;
\* on the first pass the final URL is recorded on the way to the manifest.
runPassReturns ==
  /\ gathererResults' = ObjectAssign(gathererResults, passResults)
  /\ UNCHANGED loadData
  /\ sub' = 1
  /\ baseArtifacts' = finalUrlOfFirstPass(baseArtifacts)
  /\ pc' = afterRunPass

\* Lines 326-353: afterPass(passContext, loadData, gathererResults), up to the await
afterPass ==
  /\ pc = "afterPass"
  /\ IF sub <= Len(gatherers)
     THEN /\ passResults' =
               Push(passResults, gatherers[sub], HookPromise("afterPass", gatherers[sub]))
          /\ calls' = Append(calls, HookCall("afterPass", gatherers[sub]))
          /\ pc' = "afterPass:await"
          /\ UNCHANGED <<sub, gathererResults, baseArtifacts, loadData>>
     ELSE /\ runPassReturns
          /\ UNCHANGED <<passResults, calls>>
  /\ UNCHANGED <<cfg, passIdx, isFirstPass, passContext, pageLoadError, online,
                 deviations, outcome>>

\* A plausible slip: the error is handed on as a value.
PromiseResolve(reason) == Fulfilled(reason)

\* Line 365: Promise.reject(pageLoadError)
PromiseReject(reason) == Rejected(reason)

\* Lines 361-371: fillWithPageLoadErrors, one gatherer per step
fillWithPageLoadErrors ==
  /\ pc = "fillWithPageLoadErrors"
  /\ IF sub <= Len(gatherers)
     THEN /\ passResults' = Push(passResults, gatherers[sub], PromiseReject(pageLoadError))
          /\ sub' = sub + 1
          /\ UNCHANGED <<pc, gathererResults, baseArtifacts, loadData>>
     ELSE /\ runPassReturns
          /\ UNCHANGED passResults
  /\ UNCHANGED <<cfg, passIdx, isFirstPass, passContext, pageLoadError, online, calls,
                 deviations, outcome>>

\* Lines 512 and 459-463
getWebAppManifest ==
  /\ pc = "getWebAppManifest"
  /\ \/ /\ calls' = Append(calls, <<"getAppManifest">>)
        /\ baseArtifacts' = [baseArtifacts EXCEPT !.WebAppManifest = "manifest"]
        /\ pc' = "stacksGatherer"
        /\ UNCHANGED <<cfg, sub, passState, gathererResults, passResults, deviations, outcome>>
     \/ Raises(<<"getAppManifest">>)

\* Lines 514-526: the stacks, then the user agent of the first request of the
\* pass's devtools log, if the log has a request
stacksGatherer ==
  /\ pc = "stacksGatherer"
  /\ \/ /\ calls' = Append(calls, <<"stacksGatherer">>)
        /\ baseArtifacts' =
             [baseArtifacts EXCEPT
                !.Stacks = "stacks",
                !.NetworkUserAgent = IF loadData.networkRecords # <<>>
                                     THEN "networkUserAgent" ELSE @]
        /\ isFirstPass' = FALSE
        /\ pc' = "nextPass"
        /\ UNCHANGED <<cfg, sub, passIdx, passContext, loadData, pageLoadError, online,
                       gathererResults, passResults, deviations, outcome>>
     \/ Raises(<<"stacksGatherer">>)

(***************************************************************************)
(* Teardown: lines 530-533 and disposeDriver, lines 134-148                *)
(***************************************************************************)
\* Line 531
clearDataForOrigin ==
  /\ pc = "clearDataForOrigin"
  /\ \/ /\ calls' = Append(calls, <<"clearDataForOrigin">>)
        /\ pc' = "disposeDriver"
        /\ UNCHANGED <<cfg, sub, passState, artifacts, deviations, outcome>>
     \/ Raises(<<"clearDataForOrigin">>)

\* Line 532 with line 139: disposeDriver is called and awaits driver.disconnect()
disposeDriver ==
  /\ pc = "disposeDriver"
  /\ calls' = Append(calls, <<"disconnect">>)
  /\ dispose' = Pending
  /\ pc' = "disposeDriver:await"
  /\ UNCHANGED <<cfg, sub, passState, artifacts, deviations, runState, errorLog>>

\* The error driver.disconnect() rejects with
DisconnectError(msg) == [type |-> "DisconnectError", tag |-> msg]

\* A plausible slip: an error that is not the already-closed one is thrown on.
disposeDriverRethrowing(msg) ==
  IF AlreadyClosed(msg) THEN Fulfilled(Undefined) ELSE Rejected(DisconnectError(msg))

\* Lines 138-147: how disposeDriver's promise settles when disconnect() rejects
\* with an error of message msg
disposeDriverCatch(msg) == Fulfilled(Undefined)

\* Lines 139-147: driver.disconnect() settles and disposeDriver finishes
disconnectSettles ==
  /\ dispose.state = "pending"
  /\ \/ /\ dispose' = Fulfilled(Undefined)
        /\ UNCHANGED <<errorLog, deviations, calls>>
     \/ \E msg \in DisconnectMessages :
          /\ Within(1)
          /\ deviations' = deviations + 1
          /\ calls' = Append(calls, <<"raised", "disconnect">>)
          /\ dispose' = disposeDriverCatch(msg)
          /\ errorLog' = IF AlreadyClosed(msg) THEN errorLog
                         ELSE Append(errorLog, <<"GatherRunner disconnect">> \o msg)
  /\ UNCHANGED <<cfg, pc, sub, passState, artifacts, runState>>

\* A plausible slip: disposeDriver is called without await, as in the catch block.
disposeNotAwaited == TRUE

\* Line 532: await GatherRunner.disposeDriver(driver)
disposeAwaited == Settled(dispose)

\* A plausible slip: `return await`, so that a rejection is thrown inside the try.
thrownInTryWhenAwaited(promise) == promise.state = "rejected"

\* Line 533: `return promise` without await: run()'s promise follows the
\* returned one, whose rejection is not thrown inside the try block.
thrownInTry(promise) == FALSE

\* Lines 532-533: the await of disposeDriver ends and the promise of
\* collectArtifacts is returned
returnArtifacts ==
  /\ pc = "disposeDriver:await"
  /\ disposeAwaited
  /\ IF dispose.state = "rejected"
     THEN runCatch(dispose.val, calls)
     ELSE /\ AllSettled(gathererResults)
          /\ LET returned == collectArtifacts(gathererResults, baseArtifacts) IN
             IF thrownInTry(returned)
             THEN runCatch(returned.val, calls)
             ELSE /\ runState' = returned
                  /\ baseArtifacts' = IF returned.state = "fulfilled" THEN returned.val.base
                                      ELSE baseArtifacts
                  /\ pc' = "done"
                  /\ UNCHANGED <<cfg, sub, passState, gathererResults, passResults, calls,
                                 deviations, dispose, errorLog>>

Next ==
  \/ connect
  \/ getBaseArtifacts
  \/ loadBlank
  \/ getBenchmarkIndex
  \/ setupDriver
  \/ nextPass
  \/ setupPassNetwork
  \/ cleanBrowserCaches
  \/ beforePass
  \/ awaitArtifactPromise
  \/ hookSettles
  \/ beginRecording
  \/ loadPage
  \/ pass
  \/ endRecording
  \/ disableThrottling
  \/ afterPass
  \/ fillWithPageLoadErrors
  \/ getWebAppManifest
  \/ stacksGatherer
  \/ clearDataForOrigin
  \/ disposeDriver
  \/ disconnectSettles
  \/ returnArtifacts

Spec == Init /\ [][Next]_vars

(***************************************************************************)
(* getPageLoadError (lines 156-186) on its own: the URL and the network    *)
(* records are drawn from the sets below and the function is applied once. *)
(***************************************************************************)
\* The URLs of the records: the page with and without a fragment, and another page.
ClassifierUrls ==
  {requestedUrl, Url("http://a.test/", "#top"), Url("http://cdn.test/app.js", "")}

\* failed, localizedFailDescription and statusCode of the records
ClassifierLoads ==
  { <<FALSE, <<>>, 200>>, <<FALSE, <<>>, 399>>, <<FALSE, <<>>, 400>>, <<FALSE, <<>>, 404>>,
    <<TRUE, <<>>, 0>>,
    <<TRUE, NAME_NOT_RESOLVED, 0>>,
    <<TRUE, NAME_RESOLUTION_FAILED, 0>>,
    <<TRUE, NAME_NOT_RESOLVED \o <<"_AGAIN">>, 0>>,
    <<TRUE, DNS_PREFIX \o <<"TIMED_OUT">>, 0>>,
    <<TRUE, <<"proxy: ">> \o DNS_PREFIX, 0>>,
    <<TRUE, <<"net::ERR_", "CONNECTION_REFUSED">>, 0>>,
    <<TRUE, <<"net::ERR_", "ABORTED">>, 500>> }

ClassifierRecords ==
  {NetworkRecord(u, l[1], l[2], l[3]) : u \in ClassifierUrls, l \in ClassifierLoads}

\* The record lists: up to two records.
ClassifierRecordLists ==
  {<<>>} \cup {<<r>> : r \in ClassifierRecords}
         \cup {<<r1, r2>> : r1 \in ClassifierRecords, r2 \in ClassifierRecords}

\* runPass is at line 582 with the pass's URL and records.
ClassifierInit ==
  /\ passes = <<defaultPass>>
  /\ settings = [disableStorageReset |-> FALSE]
  /\ pc = "getPageLoadError"
  /\ sub = 1
  /\ passIdx = 1
  /\ isFirstPass = TRUE
  /\ passContext \in [url : {requestedUrl, Url("http://a.test/", "#main")}]
  /\ gathererResults = <<>>
  /\ passResults = <<>>
  /\ baseArtifacts = BaseArtifacts("hostUserAgent")
  /\ loadData \in [networkRecords : ClassifierRecordLists,
                    devtoolsLog : {<<"devtoolsLog", "defaultPass">>},
                    trace : {<<"trace", "defaultPass">>}]
  /\ pageLoadError = Undefined
  /\ online = TRUE
  /\ calls = <<>>
  /\ errorLog = <<>>
  /\ dispose = NoDispose
  /\ runState = Pending
  /\ deviations = 0

\* Line 582: let pageLoadError = GatherRunner.getPageLoadError(passContext.url, loadData.networkRecords)
classify ==
  /\ pc = "getPageLoadError"
  /\ pageLoadError' = getPageLoadError(passContext.url, loadData.networkRecords)
  /\ pc' = "classified"
  /\ UNCHANGED <<cfg, sub, passIdx, isFirstPass, passContext, loadData, online, artifacts,
                 calls, deviations, outcome>>

ClassifierNext == classify

ClassifierSpec == ClassifierInit /\ [][ClassifierNext]_vars

(***************************************************************************)
(* Vocabulary of the properties                                            *)
(***************************************************************************)
IsHookCall(call) == call[1] = "hook"

\* The hooks invoked so far, in order.
hookLog == SelectSeq(calls, IsHookCall)

Phases == <<"beforePass", "pass", "afterPass">>

PhaseNo(phase) == CHOOSE k \in 1..Len(Phases) : Phases[k] = phase

PassNo(passName) == CHOOSE i \in 1..Len(passes) : passes[i].passName = passName

GathererNo(i, name) ==
  CHOOSE k \in 1..Len(passes[i].gatherers) : passes[i].gatherers[k] = name

\* Hook call h1 comes before hook call h2 in pass order, then phase order,
\* then the pass's gatherer order.
Precedes(h1, h2) ==
  LET p1 == PassNo(h1[2])  p2 == PassNo(h2[2])
      f1 == PhaseNo(h1[3]) f2 == PhaseNo(h2[3])
      g1 == GathererNo(p1, h1[4]) g2 == GathererNo(p2, h2[4])
  IN \/ p1 < p2
     \/ p1 = p2 /\ f1 < f2
     \/ p1 = p2 /\ f1 = f2 /\ g1 < g2

\* Every hook of a pass, phase by phase and gatherer by gatherer.
HooksOfPass(p) ==
  LET n == Len(p.gatherers) IN
  [k \in 1..(Len(Phases) * n) |->
     <<"hook", p.passName, Phases[((k - 1) \div n) + 1], p.gatherers[((k - 1) % n) + 1]>>]

RECURSIVE HooksOfPasses(_)
HooksOfPasses(ps) ==
  IF ps = <<>> THEN <<>> ELSE HooksOfPass(Head(ps)) \o HooksOfPasses(Tail(ps))

\* The hooks of the current pass invoked so far.
HooksInPass ==
  SelectSeq(calls, LAMBDA call : IsHookCall(call) /\ call[2] = passConfig.passName)

\* The hook promises that have not settled.
InFlight ==
  {<<i, j>> \in (1..Len(passResults)) \X (1..3) :
     j <= Len(passResults[i].value) /\ passResults[i].value[j].state = "pending"}

\* runPass has returned for the pass of the current iteration and the next
\* iteration has not begun.
PassCompleted ==
  /\ passIdx >= 1
  /\ pc \in {"getWebAppManifest", "stacksGatherer", "nextPass", "clearDataForOrigin",
             "disposeDriver", "disposeDriver:await"}

Warnings == baseArtifacts.LighthouseRunWarnings

RunResolved == runState.state = "fulfilled"
RunRejected == runState.state = "rejected"

\* The bundle's value for the gatherer of entry i of gathererResults.
BundleValue(i) == Get(runState.val.gathererArtifacts, gathererResults[i].key)

History(i) == gathererResults[i].value

AllFulfilled(h) == \A j \in 1..Len(h) : h[j].state = "fulfilled"
AllRejected(h) == \A j \in 1..Len(h) : h[j].state = "rejected"

ConfiguredNames ==
  UNION {{passes[i].gatherers[k] : k \in 1..Len(passes[i].gatherers)} : i \in 1..Len(passes)}

(***************************************************************************)
(* C1.  Hooks are invoked one at a time in one total order: at most one    *)
(* hook promise is unsettled at any time, each invoked hook precedes the   *)
(* next one in (pass, phase, gatherer) order, and a run that resolves      *)
(* without a page-load warning has invoked every hook of every pass.       *)
(***************************************************************************)
C1_HookOrder ==
  /\ Cardinality(InFlight) <= 1
  /\ \A i \in 1..(Len(hookLog) - 1) : Precedes(hookLog[i], hookLog[i + 1])
  /\ (RunResolved /\ Warnings = <<>>) => hookLog = HooksOfPasses(passes)

C1_Witness ==
  /\ RunResolved
  /\ Len(passes) = 2
  /\ hookLog = HooksOfPasses(passes)
  /\ Len(hookLog) = 9

(***************************************************************************)
(* C2.  Rejecting hooks do not change which hooks are invoked: a pass that *)
(* completes without page-load error has invoked every hook of the pass in *)
(* order, whichever of them rejected, and run() never rejects with a       *)
(* hook's error.                                                           *)
(***************************************************************************)
C2_RejectionsDoNotBlock ==
  /\ (PassCompleted /\ pageLoadError = Undefined) => HooksInPass = HooksOfPass(passConfig)
  /\ RunRejected => runState.val.type # "HookError"

C2_Witness ==
  /\ PassCompleted
  /\ pageLoadError = Undefined
  /\ Len(gatherers) = 2
  /\ Get(passResults, gatherers[1])[1].state = "rejected"
  /\ HooksInPass = HooksOfPass(passConfig)

(***************************************************************************)
(* C3.  A page-load failure classified while the driver is online: no      *)
(* afterPass hook of the pass is invoked, every gatherer of the pass has   *)
(* its beforePass and pass outcomes followed by one rejection with the     *)
(* failure, and the classification step appends exactly one warning, the   *)
(* failure's friendlyMessage, which the filling steps leave alone.         *)
(***************************************************************************)
C3_State ==
  LET err == getPageLoadError(passContext.url, loadData.networkRecords) IN
  (PassCompleted /\ online /\ err # Undefined) =>
    /\ \A k \in 1..Len(calls) :
         ~(IsHookCall(calls[k]) /\ calls[k][2] = passConfig.passName /\ calls[k][3] = "afterPass")
    /\ \A k \in 1..Len(gatherers) :
         LET h == Get(passResults, gatherers[k]) IN
         /\ Len(h) = 3
         /\ h[1].val.type # "LHError"
         /\ h[2].val.type # "LHError"
         /\ h[3] = Rejected(err)
         /\ Get(gathererResults, gatherers[k]) = h
    /\ Len(Warnings) >= 1
    /\ Warnings[Len(Warnings)] = friendlyMessage(err)

C3_Step ==
  /\ (pc = "disableThrottling" /\ pc' = "fillWithPageLoadErrors") =>
       Warnings' = Append(Warnings, friendlyMessage(pageLoadError'))
  /\ pc = "fillWithPageLoadErrors" => Warnings' = Warnings

C3_PageLoadFailure == []C3_State /\ [][C3_Step]_vars

C3_Witness ==
  /\ PassCompleted
  /\ online
  /\ pageLoadError # Undefined
  /\ Len(gatherers) = 2
  /\ Get(passResults, gatherers[2])[3] = Rejected(pageLoadError)

(***************************************************************************)
(* C4.  In a returned bundle, a gatherer whose phase results all fulfilled *)
(* has as artifact the last of them that is not undefined: a defined       *)
(* result with only undefined results after it.                            *)
(***************************************************************************)
C4_LastDefinedWins ==
  RunResolved =>
    \A i \in 1..Len(gathererResults) :
      AllFulfilled(History(i)) =>
        \E k \in 1..Len(History(i)) :
          /\ History(i)[k].val # Undefined
          /\ BundleValue(i) = History(i)[k].val
          /\ \A j \in (k + 1)..Len(History(i)) : History(i)[j].val = Undefined

C4_Witness ==
  /\ RunResolved
  /\ \E i \in 1..Len(gathererResults) :
       /\ AllFulfilled(History(i))
       /\ Len(History(i)) = 3
       /\ History(i)[1].val # Undefined
       /\ History(i)[2].val # Undefined
       /\ History(i)[3].val = Undefined
       /\ BundleValue(i) = History(i)[2].val

\* The histories of three slots whose pass hook rejected while the beforePass
\* and afterPass hooks resolved to defined values.
PassRejectedOnly(h) ==
  /\ Len(h) = 3
  /\ h[1].state = "fulfilled" /\ h[1].val # Undefined
  /\ h[2].state = "rejected"
  /\ h[3].state = "fulfilled" /\ h[3].val # Undefined

(***************************************************************************)
(* C5, as claimed.  In a returned bundle, a gatherer whose pass hook       *)
(* rejected while its beforePass and afterPass hooks resolved to defined   *)
(* values has the afterPass value as artifact.                             *)
(***************************************************************************)
C5_AsClaimed ==
  RunResolved =>
    \A i \in 1..Len(gathererResults) :
      PassRejectedOnly(History(i)) => BundleValue(i) = History(i)[3].val

(***************************************************************************)
(* C5, amended.  In a returned bundle, a gatherer whose pass hook rejected *)
(* while its beforePass and afterPass hooks resolved to defined values has *)
(* the error of the pass hook as artifact: the rejection is surfaced and   *)
(* both values are discarded.                                              *)
(***************************************************************************)
C5_RejectionSurfaces ==
  RunResolved =>
    \A i \in 1..Len(gathererResults) :
      PassRejectedOnly(History(i)) =>
        /\ BundleValue(i) = History(i)[2].val
        /\ BundleValue(i).type = "HookError"

C5_Witness ==
  /\ RunResolved
  /\ \E i \in 1..Len(gathererResults) :
       /\ PassRejectedOnly(History(i))
       /\ BundleValue(i) = History(i)[2].val
       /\ BundleValue(i) # History(i)[3].val

(***************************************************************************)
(* C6, as claimed.  In a returned bundle, a gatherer whose phase results   *)
(* all rejected has the reason of the last of them as artifact.            *)
(***************************************************************************)
C6_AsClaimed ==
  RunResolved =>
    \A i \in 1..Len(gathererResults) :
      AllRejected(History(i)) => BundleValue(i) = History(i)[Len(History(i))].val

(***************************************************************************)
(* C6, amended.  In a returned bundle, a gatherer whose phase results all  *)
(* rejected (the last of them may be the injected page-load failure) has   *)
(* the reason of the first of them as artifact.                            *)
(***************************************************************************)
C6_FirstErrorWins ==
  RunResolved =>
    \A i \in 1..Len(gathererResults) :
      AllRejected(History(i)) => BundleValue(i) = History(i)[1].val

C6_Witness ==
  /\ RunResolved
  /\ \E i \in 1..Len(gathererResults) :
       /\ AllRejected(History(i))
       /\ Len(History(i)) = 3
       /\ History(i)[3].val.type = "LHError"
       /\ BundleValue(i) = History(i)[1].val
       /\ BundleValue(i).type = "HookError"

(***************************************************************************)
(* C7.  A hook's rejection never fails the run: run() rejects only with    *)
(* the error of a driver or collaborator call or with the no-artifact      *)
(* error of a gatherer none of whose phase results rejected; a returned    *)
(* bundle has exactly one entry for each configured gatherer name, and the *)
(* entry of a gatherer with a rejected phase result is the reason of one   *)
(* of its rejections.                                                      *)
(***************************************************************************)
C7_RejectionNeverFatal ==
  /\ RunRejected =>
       /\ runState.val.type \in {"DriverError", "NoArtifactError"}
       /\ runState.val.type = "NoArtifactError" =>
            RejectedAt(Get(gathererResults, runState.val.tag[1])) = {}
  /\ RunResolved =>
       /\ Len(runState.val.gathererArtifacts) = Cardinality(ConfiguredNames)
       /\ Keys(runState.val.gathererArtifacts) = ConfiguredNames
       /\ \A i \in 1..Len(gathererResults) :
            RejectedAt(History(i)) # {} =>
              \E j \in RejectedAt(History(i)) : BundleValue(i) = History(i)[j].val

C7_Witness ==
  /\ RunResolved
  /\ Cardinality(ConfiguredNames) = 3
  /\ \E i \in 1..Len(gathererResults) :
       /\ RejectedAt(History(i)) # {}
       /\ BundleValue(i).type = "HookError"
  /\ \E i \in 1..Len(gathererResults) : AllFulfilled(History(i))

(***************************************************************************)
(* C8.  When a call on the driver or a collaborator raises, the only call  *)
(* after it is driver.disconnect() (whose own failure may follow): no      *)
(* later step and no hook.  run() has then rejected with the error of the  *)
(* call that raised, and so has returned no bundle.                        *)
(***************************************************************************)
Raised(k) == calls[k][1] = "raised" /\ calls[k][2] # "disconnect"

C8_FatalStep ==
  \A k \in 1..Len(calls) :
    Raised(k) =>
      /\ k > 1
      /\ calls[k - 1][1] = calls[k][2]
      /\ Len(calls) > k
      /\ calls[k + 1] = <<"disconnect">>
      /\ \A m \in (k + 2)..Len(calls) : calls[m] = <<"raised", "disconnect">>
      /\ dispose.state # "none"
      /\ runState = Rejected(DriverError(calls[k][2]))
      /\ pc = "done"

C8_Witness ==
  /\ \E k \in 1..Len(calls) : calls[k] = <<"raised", "endTrace">>
  /\ Len(hookLog) = 4
  /\ RunRejected
  /\ dispose.state = "pending"

(***************************************************************************)
(* C9.  disposeDriver never raises: its promise is never rejected, run()   *)
(* never rejects with the error of disconnect(), and a run in which no     *)
(* other call raised and every gatherer provides an artifact resolves even *)
(* when disconnect() failed.                                               *)
(***************************************************************************)
DisconnectFailed == \E k \in 1..Len(calls) : calls[k] = <<"raised", "disconnect">>

C9_DisposeNeverRaises ==
  /\ dispose.state # "rejected"
  /\ RunRejected => runState.val.type # "DisconnectError"
  /\ (pc = "done" /\ DisconnectFailed /\ Unprovided(gathererResults) = {}
        /\ \A k \in 1..Len(calls) : ~Raised(k)) => RunResolved

C9_Witness ==
  /\ pc = "done"
  /\ RunResolved
  /\ DisconnectFailed
  /\ \E k \in 1..Len(errorLog) : errorLog[k][1] = "GatherRunner disconnect"

(***************************************************************************)
(* C10.  When the driver is not online at the classification of a pass,    *)
(* whatever the network records: the classification step appends no        *)
(* warning, logs no error and goes on to afterPass; the completed pass has *)
(* invoked every afterPass hook and no history of the pass holds a         *)
(* page-load failure.                                                      *)
(***************************************************************************)
C10_State ==
  (PassCompleted /\ ~online) =>
    /\ pageLoadError = Undefined
    /\ HooksInPass = HooksOfPass(passConfig)
    /\ \A k \in 1..Len(gatherers) :
         LET h == Get(passResults, gatherers[k]) IN
         /\ Len(h) = 3
         /\ \A j \in 1..3 : h[j].val.type # "LHError"

C10_Step ==
  (pc = "disableThrottling" /\ pc' # "done" /\ ~online') =>
    /\ pc' = "afterPass"
    /\ Warnings' = Warnings
    /\ errorLog' = errorLog

C10_OfflineSuppresses == []C10_State /\ [][C10_Step]_vars

C10_Witness ==
  /\ PassCompleted
  /\ ~online
  /\ getPageLoadError(passContext.url, loadData.networkRecords) # Undefined
  /\ HooksInPass = HooksOfPass(passConfig)
  /\ Warnings = <<>>

(***************************************************************************)
(* C11.  URL.requestedUrl is the requested URL throughout.  URL.finalUrl   *)
(* is written by one step only, the return of the first pass, and gets the *)
(* URL the navigation of that pass resolved to (which only loadPage writes *)
(* to passContext.url); no step of a later pass changes it, and the        *)
(* returned bundle carries both URLs.                                      *)
(***************************************************************************)
FinalUrl == baseArtifacts.URL.finalUrl

C11_State ==
  /\ baseArtifacts.URL.requestedUrl = requestedUrl
  /\ (PassCompleted /\ passIdx = 1) => FinalUrl = passContext.url
  /\ RunResolved =>
       /\ runState.val.base.URL.requestedUrl = requestedUrl
       /\ runState.val.base.URL.finalUrl = FinalUrl
       /\ FinalUrl \in FinalUrls

C11_Step ==
  /\ FinalUrl' # FinalUrl =>
       /\ passIdx = 1
       /\ pc \in {"afterPass", "fillWithPageLoadErrors"}
       /\ pc' = "getWebAppManifest"
       /\ FinalUrl' = passContext.url
  /\ passContext'.url # passContext.url => pc \in {"loadPage", "nextPass"}
  /\ (pc = "nextPass" /\ passIdx' # passIdx) => passContext'.url = requestedUrl

C11_FinalUrlOfFirstPass == []C11_State /\ [][C11_Step]_vars

C11_Witness ==
  /\ RunResolved
  /\ Len(passes) = 2
  /\ runState.val.base.URL.finalUrl = redirectedUrl
  /\ runState.val.base.URL.requestedUrl = requestedUrl
  /\ passContext.url = requestedUrl

\* The passes that configure gatherer `name`, and the name of the last of them.
PassesOf(name) ==
  {i \in 1..Len(passes) : \E k \in 1..Len(passes[i].gatherers) : passes[i].gatherers[k] = name}

LastPassOf(name) ==
  passes[CHOOSE i \in PassesOf(name) : \A j \in PassesOf(name) : j <= i].passName

\* Every hook outcome (or hook error) in history h comes from pass passName.
FromPass(h, passName) ==
  \A j \in 1..Len(h) :
    h[j].val.type \in {"value", "HookError", "hook"} => h[j].val.tag[1] = passName

(***************************************************************************)
(* C12.  The merge of a pass's results replaces the history of each of the *)
(* pass's gatherers, also when an earlier pass left one under the same     *)
(* name.  So the accumulator never holds more than one pass's three slots  *)
(* for a name, and in a returned bundle the artifact of a gatherer is      *)
(* reconciled from the slots of the last pass that configures it: no value *)
(* and no hook error of an earlier pass is in the bundle.                  *)
(***************************************************************************)
C12_State ==
  /\ \A i \in 1..Len(gathererResults) :
       /\ Len(History(i)) <= 3
       /\ \E n \in PassesOf(gathererResults[i].key) :
            FromPass(History(i), passes[n].passName)
  /\ RunResolved =>
       \A i \in 1..Len(gathererResults) :
         LET last == LastPassOf(gathererResults[i].key) IN
         /\ FromPass(History(i), last)
         /\ BundleValue(i) = Artifact(History(i))
         /\ BundleValue(i).type \in {"value", "HookError"} => BundleValue(i).tag[1] = last

C12_Step ==
  (pc \in {"afterPass", "fillWithPageLoadErrors"} /\ pc' \in {"getWebAppManifest", "nextPass"}) =>
    \A k \in 1..Len(gatherers) :
      Get(gathererResults', gatherers[k]) = Get(passResults, gatherers[k])

C12_LaterPassReplaces == []C12_State /\ [][C12_Step]_vars

\* The first pass failed to load, so gatherer A's history of that pass ended
\* in a rejection; the second pass configures A again and the bundle has its value.
C12_Witness ==
  /\ RunResolved
  /\ passes = <<redirectPass, defaultPass>>
  /\ \E k \in 1..Len(Warnings) : Warnings[k][1] = "friendlyMessage"
  /\ pageLoadError = Undefined
  /\ \E k \in 1..Len(hookLog) : hookLog[k] = <<"hook", "redirectPass", "pass", "A">>
  /\ Get(runState.val.gathererArtifacts, "A") = HookValue("defaultPass", "afterPass", "A")

Elements(seq) == {seq[i] : i \in 1..Len(seq)}

NoDuplicates(seq) == \A i, j \in 1..Len(seq) : seq[i] = seq[j] => i = j

\* run() is about to return collectArtifacts' promise, or has.
Returning == pc \in {"disposeDriver:await", "done"}

(***************************************************************************)
(* C13.  Until run() returns, the warnings list only grows at its end.     *)
(* The list of a returned bundle has no message twice and has exactly the  *)
(* messages that were in the list when collectArtifacts was called, so     *)
(* every message a page-load failure or a hook appended, once.             *)
(***************************************************************************)
C13_State ==
  RunResolved =>
    /\ NoDuplicates(runState.val.base.LighthouseRunWarnings)
    /\ \A k \in 1..Len(errorLog) :
         errorLog[k][1] = "GatherRunner" =>
           <<"friendlyMessage">> \o SubSeq(errorLog[k], 3, Len(errorLog[k]))
             \in Elements(runState.val.base.LighthouseRunWarnings)

C13_Step ==
  /\ ~Returning =>
       /\ Len(Warnings') >= Len(Warnings)
       /\ SubSeq(Warnings', 1, Len(Warnings)) = Warnings
  /\ (pc = "disposeDriver:await" /\ RunResolved') =>
       /\ Elements(runState'.val.base.LighthouseRunWarnings) = Elements(Warnings)
       /\ NoDuplicates(runState'.val.base.LighthouseRunWarnings)

C13_UniqueWarnings == []C13_State /\ [][C13_Step]_vars

\* Both passes failed to load in the same way and a hook pushed a warning:
\* three messages were appended, two of them the same.
C13_Witness ==
  /\ RunResolved
  /\ Len(errorLog) = 2
  /\ errorLog[1] = errorLog[2]
  /\ errorLog[1][1] = "GatherRunner"
  /\ Len(runState.val.base.LighthouseRunWarnings) = 2
  /\ \E name \in ConfiguredNames :
       HookWarning(name) \in Elements(runState.val.base.LighthouseRunWarnings)

\* Every phase result of history h resolved to undefined.
AllUndefined(h) == \A j \in 1..Len(h) : h[j] = Fulfilled(Undefined)

\* The entries of the accumulator whose history resolved to undefined only.
Silent == {i \in 1..Len(gathererResults) : AllUndefined(History(i))}

\* run() got as far as returning the promise of collectArtifacts.
Collected == pc = "done" /\ \A k \in 1..Len(calls) : ~Raised(k)

(***************************************************************************)
(* C14.  When run() reaches collectArtifacts and some gatherer's phase     *)
(* results all resolved to undefined, run() rejects with the error that    *)
(* names the first such gatherer and returns no bundle, whatever the other *)
(* gatherers produced; and run() rejects with such an error only for a     *)
(* gatherer of that kind.                                                  *)
(***************************************************************************)
C14_NoArtifactIsFatal ==
  /\ (Collected /\ Silent # {}) =>
       /\ RunRejected
       /\ runState.val =
            NoArtifactError(gathererResults[CHOOSE i \in Silent : \A j \in Silent : i <= j].key)
  /\ (RunRejected /\ runState.val.type = "NoArtifactError") =>
       /\ Collected
       /\ \E i \in Silent : runState.val.tag[1] = gathererResults[i].key

C14_Witness ==
  /\ Collected
  /\ RunRejected
  /\ runState.val = NoArtifactError("A")
  /\ Len(Get(gathererResults, "A")) = 3
  /\ Artifact(Get(gathererResults, "B")) = HookValue("defaultPass", "afterPass", "B")

\* The records of the list whose URL is `url` but for the fragment.
Matching(url, records) ==
  {i \in 1..Len(records) : records[i].url.base = url.base}

\* The reasons of the DNS family.
IsDnsReason(reason) ==
  \/ reason = <<"net::ERR_", "NAME_NOT_RESOLVED">>
  \/ reason = <<"net::ERR_", "NAME_RESOLUTION_FAILED">>
  \/ (Len(reason) >= 2 /\ reason[1] = "net::ERR_" /\ reason[2] = "DNS_")

(***************************************************************************)
(* C15.  The classification is decided by the first record of the list     *)
(* whose URL equals the page's but for the fragment.  None: the error      *)
(* NO_DOCUMENT_REQUEST.  Failed: DNS_FAILURE for a reason of the DNS       *)
(* family, else FAILED_DOCUMENT_REQUEST with the reason, whatever the      *)
(* status code.  Not failed with a status code of 400 or more:             *)
(* ERRORED_DOCUMENT_REQUEST with the code as text.  Otherwise no error.    *)
(* The step leaves the URL and the records as they were.                   *)
(***************************************************************************)
C15_State ==
  pc = "classified" =>
    LET url == passContext.url
        records == loadData.networkRecords
        M == Matching(url, records) IN
    IF M = {} THEN pageLoadError = LHError("NO_DOCUMENT_REQUEST", <<>>)
    ELSE LET r == records[CHOOSE i \in M : \A j \in M : i <= j] IN
      /\ (r.failed /\ IsDnsReason(r.localizedFailDescription)) =>
           pageLoadError = LHError("DNS_FAILURE", <<>>)
      /\ (r.failed /\ ~IsDnsReason(r.localizedFailDescription)) =>
           pageLoadError = LHError("FAILED_DOCUMENT_REQUEST", r.localizedFailDescription)
      /\ (~r.failed /\ r.statusCode >= 400) =>
           pageLoadError = LHError("ERRORED_DOCUMENT_REQUEST", <<ToString(r.statusCode)>>)
      /\ (~r.failed /\ r.statusCode < 400) => pageLoadError = Undefined

C15_Step ==
  pc = "getPageLoadError" => (passContext' = passContext /\ loadData' = loadData)

C15_Classifier == []C15_State /\ [][C15_Step]_vars

\* The page's URL has a fragment; the first record of the page failed with an
\* error status code, the second one loaded.
C15_Witness ==
  /\ pc = "classified"
  /\ passContext.url.hash = "#main"
  /\ Len(loadData.networkRecords) = 2
  /\ loadData.networkRecords[1] =
       NetworkRecord(Url("http://a.test/", "#top"), TRUE, <<"net::ERR_", "ABORTED">>, 500)
  /\ loadData.networkRecords[2] = NetworkRecord(requestedUrl, FALSE, <<>>, 200)
  /\ pageLoadError = LHError("FAILED_DOCUMENT_REQUEST", <<"net::ERR_", "ABORTED">>)

\* Promise p is what the hook `phase` of gatherer `name` in the current pass settled with.
OutcomeOf(p, phase, name) ==
  p \in {Fulfilled(HookValue(passConfig.passName, phase, name)),
         Fulfilled(Undefined),
         Rejected(HookError(passConfig.passName, phase, name))}

(***************************************************************************)
(* C16.  When a pass has completed, its results have one history for each  *)
(* gatherer of the pass, of exactly three slots: the outcome of its        *)
(* beforePass hook, the outcome of its pass hook, and then the outcome of  *)
(* its afterPass hook or, when the page failed to load, the rejection with *)
(* the page-load error; the accumulator holds the same history.  No step   *)
(* of a pass changes a slot that has settled: filling in the page-load     *)
(* error leaves the two captured slots as they were.                       *)
(***************************************************************************)
C16_State ==
  PassCompleted =>
    /\ Len(passResults) = Len(gatherers)
    /\ \A k \in 1..Len(gatherers) :
         LET h == Get(passResults, gatherers[k]) IN
         /\ Len(h) = 3
         /\ OutcomeOf(h[1], "beforePass", gatherers[k])
         /\ OutcomeOf(h[2], "pass", gatherers[k])
         /\ pageLoadError = Undefined => OutcomeOf(h[3], "afterPass", gatherers[k])
         /\ pageLoadError # Undefined => h[3] = Rejected(pageLoadError)
         /\ Get(gathererResults, gatherers[k]) = h
    /\ \A i \in 1..Len(gathererResults) : Len(History(i)) = 3

C16_Step ==
  pc # "nextPass" =>
    /\ Len(passResults') >= Len(passResults)
    /\ \A i \in 1..Len(passResults) :
         /\ passResults'[i].key = passResults[i].key
         /\ Len(passResults'[i].value) >= Len(passResults[i].value)
         /\ \A j \in 1..Len(passResults[i].value) :
              Settled(passResults[i].value[j]) =>
                passResults'[i].value[j] = passResults[i].value[j]

C16_ThreeSlots == []C16_State /\ [][C16_Step]_vars

C16_Witness ==
  /\ PassCompleted
  /\ pageLoadError # Undefined
  /\ Len(gatherers) = 2
  /\ Get(passResults, gatherers[1]) =
       << Rejected(HookError(passConfig.passName, "beforePass", gatherers[1])),
          Fulfilled(HookValue(passConfig.passName, "pass", gatherers[1])),
          Rejected(pageLoadError) >>

\* How many of the first k calls are `call`.
Count(call, k) == Cardinality({m \in 1..k : m <= Len(calls) /\ calls[m] = call})

\* The pass whose network setup was the latest to finish before call k:
\* setExtraHTTPHeaders is called once per pass, last in the network setup.
PassAt(k) == Count(<<"setExtraHTTPHeaders">>, k)

\* The pass measures performance: storage reset is on, it records a trace and it throttles.
MeasuresPerformance(p) == ~settings.disableStorageReset /\ p.recordTrace /\ p.useThrottling

IsNavigation(call) == call[1] = "gotoURL"

Blank == <<"gotoURL", blankPage.base>>

\* The latest navigation among the first k calls, or no call at all.
LastNavigation(k) ==
  LET N == {m \in 1..k : IsNavigation(calls[m])} IN
  IF N = {} THEN <<"none">> ELSE calls[CHOOSE m \in N : \A n \in N : n <= m]

FirstHook(n, phase) == <<"hook", passes[n].passName, phase, passes[n].gatherers[1]>>
LastHook(n, phase) ==
  <<"hook", passes[n].passName, phase, passes[n].gatherers[Len(passes[n].gatherers)]>>

Target == <<"gotoURL", requestedUrl.base>>

(***************************************************************************)
(* C19.  In every pass the devtools log is begun right after the last      *)
(* beforePass hook and the navigation follows the begin calls; the log is  *)
(* ended after the last pass hook and the first afterPass hook comes after *)
(* that.  beginTrace follows beginDevtoolsLog and endTrace precedes        *)
(* endDevtoolsLog exactly in the passes that record a trace.  Once a pass  *)
(* has completed, baseArtifacts has its devtools log under the pass name,  *)
(* and has its trace under the pass name if the pass records one and no    *)
(* trace under that name if it does not.                                   *)
(***************************************************************************)
C19_Recording ==
  /\ \A k \in 1..Len(calls) :
       /\ calls[k] \in {<<"beginDevtoolsLog">>, <<"beginTrace">>, Target,
                        <<"endTrace">>, <<"endDevtoolsLog">>} =>
            LET n == PassAt(k) IN
            /\ n >= 1
            /\ calls[k] = <<"beginDevtoolsLog">> => calls[k - 1] = LastHook(n, "beforePass")
            /\ calls[k] = <<"beginTrace">> =>
                 passes[n].recordTrace /\ calls[k - 1] = <<"beginDevtoolsLog">>
            /\ calls[k] = Target =>
                 calls[k - 1] = IF passes[n].recordTrace THEN <<"beginTrace">>
                                ELSE <<"beginDevtoolsLog">>
            /\ calls[k] = <<"endTrace">> =>
                 passes[n].recordTrace /\ calls[k - 1] = LastHook(n, "pass")
            /\ calls[k] = <<"endDevtoolsLog">> =>
                 calls[k - 1] = IF passes[n].recordTrace THEN <<"endTrace">>
                                ELSE LastHook(n, "pass")
       /\ IsHookCall(calls[k]) =>
            LET n == PassNo(calls[k][2]) IN
            /\ calls[k] = FirstHook(n, "pass") => calls[k - 1] = Target
            /\ calls[k] = FirstHook(n, "afterPass") =>
                 /\ calls[k - 1] = <<"setThrottling", "unthrottled">>
                 /\ calls[k - 2] = <<"recordsFromLogs">>
                 /\ calls[k - 3] = <<"endDevtoolsLog">>
  /\ PassCompleted =>
       \A n \in 1..passIdx :
         /\ Get(baseArtifacts.devtoolsLogs, passes[n].passName) =
              <<"devtoolsLog", passes[n].passName>>
         /\ passes[n].recordTrace =>
              Get(baseArtifacts.traces, passes[n].passName) = <<"trace", passes[n].passName>>
         /\ ~passes[n].recordTrace => passes[n].passName \notin Keys(baseArtifacts.traces)

C19_Witness ==
  /\ PassCompleted
  /\ passes = <<defaultPass, offlinePass>>
  /\ passIdx = 2
  /\ Keys(baseArtifacts.traces) = {"defaultPass"}
  /\ Keys(baseArtifacts.devtoolsLogs) = {"defaultPass", "offlinePass"}
  /\ Count(<<"beginTrace">>, Len(calls)) = 1
  /\ Count(<<"endDevtoolsLog">>, Len(calls)) = 2
  /\ \E k \in 1..Len(calls) : calls[k] = FirstHook(2, "afterPass")

IsThrottling(call) == call[1] = "setThrottling"

Throttled == <<"setThrottling", "throttled">>
Unthrottled == <<"setThrottling", "unthrottled">>

\* The latest setThrottling among the first k calls, or no call at all.
LastThrottling(k) ==
  LET T == {m \in 1..k : IsThrottling(calls[m])} IN
  IF T = {} THEN <<"none">> ELSE calls[CHOOSE m \in T : \A n \in T : n <= m]

(***************************************************************************)
(* C20.  The call that follows the end of a pass's recording switches      *)
(* throttling off, whether or not the page loaded.  So when an afterPass   *)
(* hook is invoked, and when a pass has completed on either branch, the    *)
(* latest setThrottling call was the one that switched it off.  A call     *)
(* that switches throttling on is the first call of the network setup of   *)
(* a pass that uses throttling: it follows the blank page's load or the    *)
(* driver's setup, never the recording.                                    *)
(***************************************************************************)
C20_ThrottlingOff ==
  /\ \A k \in 1..Len(calls) :
       /\ (calls[k] = <<"recordsFromLogs">> /\ k < Len(calls)) => calls[k + 1] = Unthrottled
       /\ (IsHookCall(calls[k]) /\ calls[k][3] = "afterPass") => LastThrottling(k) = Unthrottled
       /\ calls[k] = Throttled =>
            /\ passes[PassAt(k) + 1].useThrottling
            /\ calls[k - 1] \in {Blank, SetupDriverCalls[SetupDriverSteps]}
            /\ k < Len(calls) => calls[k + 1] \in {<<"blockUrlPatterns">>, <<"raised", "setThrottling">>}
  /\ PassCompleted =>
       /\ LastThrottling(Len(calls)) = Unthrottled
       /\ Count(Throttled, Len(calls)) + Count(Unthrottled, Len(calls)) = 2 * passIdx

\* The first pass failed to load, the second one throttled and ran its afterPass hooks.
C20_Witness ==
  /\ PassCompleted
  /\ passes = <<redirectPass, defaultPass>>
  /\ passIdx = 2
  /\ \E k \in 1..Len(Warnings) : Warnings[k][1] = "friendlyMessage"
  /\ pageLoadError = Undefined
  /\ Count(Throttled, Len(calls)) = 1
  /\ Count(Unthrottled, Len(calls)) = 3
  /\ calls[Len(calls)] = LastHook(2, "afterPass")

\* run() rejected with the error of a driver or collaborator call.
FatalError == RunRejected /\ runState.val.type = "DriverError"

(***************************************************************************)
(* C21.  When run() has settled after reaching collectArtifacts (with the  *)
(* bundle, or with the no-artifact error), disposeDriver has finished.     *)
(* When run() rejects with the error of a call that raised, disposeDriver  *)
(* has been called and its disconnect() is at that moment still pending:   *)
(* the step that rejects run() is the step that starts it, and it settles  *)
(* only later, leaving run()'s error as it was.                            *)
(***************************************************************************)
C21_State ==
  /\ RunResolved => dispose.state = "fulfilled"
  /\ (RunRejected /\ ~FatalError) => dispose.state = "fulfilled"
  /\ FatalError => dispose.state \in {"pending", "fulfilled"}
  /\ (pc = "done") = (runState.state # "pending")

C21_Step ==
  /\ (~FatalError /\ FatalError') =>
       /\ dispose.state = "none"
       /\ dispose'.state = "pending"
       /\ calls'[Len(calls')] = <<"disconnect">>
  /\ (dispose.state = "pending" /\ dispose'.state # "pending" /\ pc = "done") =>
       /\ FatalError
       /\ runState' = runState

C21_TeardownAwaited == []C21_State /\ [][C21_Step]_vars

\* The manifest could not be fetched: run() has rejected and disconnect() has
\* been called but has not settled.
C21_Witness ==
  /\ runState = Rejected(DriverError("getAppManifest"))
  /\ dispose.state = "pending"
  /\ calls[Len(calls)] = <<"disconnect">>
  /\ calls[Len(calls) - 1] = <<"raised", "getAppManifest">>

\* How many times driver.disconnect() has been called.
Disconnects == Count(<<"disconnect">>, Len(calls))

(***************************************************************************)
(* C22.  driver.disconnect() is never called twice.  It has not been       *)
(* called until run() reaches its teardown or its error handler, and it    *)
(* has been called once when run() has settled: with the bundle, with the  *)
(* error of a call that raised, or with the no-artifact error that         *)
(* collectArtifacts raises after the teardown.                             *)
(***************************************************************************)
C22_DisconnectOnce ==
  /\ Disconnects <= 1
  /\ (Disconnects = 0) = (dispose.state = "none")
  /\ pc \notin {"disposeDriver:await", "done"} => Disconnects = 0
  /\ runState.state # "pending" => Disconnects = 1
  /\ FatalError =>
       \E k \in 2..Len(calls) : Raised(k - 1) /\ calls[k] = <<"disconnect">>

\* collectArtifacts raised after the teardown: one disconnect, made before it.
C22_Witness ==
  /\ RunRejected
  /\ runState.val.type = "NoArtifactError"
  /\ Disconnects = 1
  /\ dispose.state = "fulfilled"
  /\ \A k \in 1..Len(calls) : ~Raised(k)

\* A page-load failure was logged in some pass of the run.
PageLoadFailed == \E k \in 1..Len(errorLog) : errorLog[k][1] = "GatherRunner"

\* The beforePass and pass hooks of pass p, in order.
HooksUntilLoad(p) == SubSeq(HooksOfPass(p), 1, 2 * Len(p.gatherers))

RECURSIVE HooksUntilLoadOfPasses(_)
HooksUntilLoadOfPasses(ps) ==
  IF ps = <<>> THEN <<>> ELSE HooksUntilLoad(Head(ps)) \o HooksUntilLoadOfPasses(Tail(ps))

(***************************************************************************)
(* C23.  A pass whose page failed to load returns like any other: from     *)
(* the filling of its histories run() goes on to the first-pass            *)
(* finalization or to the next iteration, and the step that classifies     *)
(* the failure leaves run() pending.  So a run in which no call raised     *)
(* has gone through all its passes and called every beforePass and pass    *)
(* hook, has finalized its first pass right after it (final URL,           *)
(* manifest, and the step of the stacks and the network user agent), has   *)
(* called every hook of a last pass that loaded after an earlier one       *)
(* failed, and has resolved with a bundle unless some gatherer resolved to *)
(* undefined only.                                                         *)
(***************************************************************************)
C23_State ==
  /\ (Collected /\ PageLoadFailed) =>
       /\ passIdx = Len(passes)
       /\ SelectSeq(hookLog, LAMBDA h : h[3] # "afterPass") = HooksUntilLoadOfPasses(passes)
       /\ Count(<<"getAppManifest">>, Len(calls)) = 1
       /\ Count(<<"stacksGatherer">>, Len(calls)) = 1
       /\ \A k \in 1..Len(calls) : calls[k] = <<"getAppManifest">> => PassAt(k) = 1
       /\ FinalUrl \in FinalUrls
       /\ baseArtifacts.WebAppManifest = "manifest"
       /\ baseArtifacts.Stacks = "stacks"
       /\ pageLoadError = Undefined => HooksInPass = HooksOfPass(passConfig)
       /\ Silent = {} => RunResolved
  /\ (PassCompleted /\ pageLoadError # Undefined) => runState = Pending

C23_Step ==
  /\ (pc = "disableThrottling" /\ pageLoadError' # Undefined /\ pc' # "done") =>
       pc' = "fillWithPageLoadErrors" /\ runState' = Pending
  /\ (pc = "fillWithPageLoadErrors" /\ pc' # pc) =>
       /\ pc' = IF passIdx = 1 THEN "getWebAppManifest" ELSE "nextPass"
       /\ runState' = Pending

C23_FailureDoesNotStop == []C23_State /\ [][C23_Step]_vars

\* The first of two passes failed to load; the second one ran all its hooks
\* and the run resolved.
C23_Witness ==
  /\ RunResolved
  /\ Len(passes) = 2
  /\ PageLoadFailed
  /\ pageLoadError = Undefined
  /\ online
  /\ \A k \in 1..Len(hookLog) :
       ~(hookLog[k][2] = passes[1].passName /\ hookLog[k][3] = "afterPass")
  /\ HooksInPass = HooksOfPass(passes[2])
  /\ runState.val.base.WebAppManifest = "manifest"

====
